---- MODULE Spec2Model ----
(***************************************************************************)
(* A model of logbar's ProgressBar (src/src/lib.rs): the scale drawn at    *)
(* construction, and inc / finish called by several threads that share one *)
(* bar.  usize is modelled as the integers 0 .. MaxUsize; an operation     *)
(* whose exact result leaves that range panics when the build checks       *)
(* overflow (debug) and wraps modulo MaxUsize + 1 when it does not         *)
(* (release).                                                              *)
(***************************************************************************)
EXTENDS Integers, Sequences, FiniteSets, TLC

\* ------------------------------------------------------------------ bounds
MaxUsize == 7      \* largest value of the modelled usize
NumThreads == 2     \* threads sharing the bar
MaxCalls == 2       \* inc / finish calls made in one behaviour, all threads together
MaxWidth == 41      \* widest style the constructor is given when only the scale is drawn

Modulus == MaxUsize + 1
Threads == 1 .. NumThreads

\* ------------------------------------------------------- program constants
DEFAULT_WIDTH == 50
SEGMENTS == <<10, 5, 4, 2>>

\* the inputs the behaviours are drawn from
Amounts == {0, 1, 2, MaxUsize}
MaxProgressValues == {0, 1, 2, 3, MaxUsize}
WidthValues == {0, 1, 2, 5}

VARIABLES
    max_progress,     \* ProgressBar.max_progress
    width,            \* ProgressBar.style.width
    labels,           \* ProgressBar.style.labels
    overflow_checks,  \* TRUE: arithmetic overflow panics; FALSE: it wraps
    count,            \* Counter.count
    progress,         \* Counter.progress
    finished,         \* Counter.finished
    lock,             \* the thread holding the counter mutex, 0 when free
    poisoned,         \* a thread panicked while holding the mutex
    pc,               \* where each thread is
    arg,              \* the i of the inc call each thread is in
    todo,             \* glyphs the thread's inc still has to write
    in_finish,        \* the thread's inc was called by finish
    stream,           \* everything written to stderr, in order
    ncalls,           \* calls started so far
    sum,              \* the exact sum of the amounts of all inc calls started
    last_ret,         \* the call that returned last: "none", "inc" or "finish"
    callers,          \* the threads that have called inc or finish
    overflowed,       \* some arithmetic of inc has left 0 .. MaxUsize
    ctor,             \* the constructor that built the bar: "none" before it ran
    given             \* the arguments that constructor was called with

vars == <<max_progress, width, labels, overflow_checks, count, progress, finished,
          lock, poisoned, pc, arg, todo, in_finish, stream, ncalls, sum, last_ret,
          callers, overflowed, ctor, given>>

bar_vars == <<max_progress, width, labels, overflow_checks, ctor, given>>
counter_vars == <<count, progress, finished>>

\* ------------------------------------------------------------------ glyphs
\* The style's three glyphs are arbitrary chars; the model names them by role.
Tick == "tick"
Bar == "bar"
Indicator == "indicator"
Newline == "\n"

Min(a, b) == IF a <= b THEN a ELSE b

RECURSIVE Repeat(_, _)
Repeat(c, n) == IF n <= 0 THEN <<>> ELSE <<c>> \o Repeat(c, n - 1)

\* "{}" of a usize: its decimal digits, most significant first
DigitChar(d) == <<"0", "1", "2", "3", "4", "5", "6", "7", "8", "9">>[d + 1]
RECURSIVE Digits(_)
Digits(n) == IF n < 10 THEN <<DigitChar(n)>> ELSE Digits(n \div 10) \o <<DigitChar(n % 10)>>

\* ------------------------------------------------------------------- scale
NumSegmentsFrom(w, k) ==
    LET RECURSIVE Go(_)
        Go(j) == IF j > Len(SEGMENTS) THEN 1
                 ELSE IF w % SEGMENTS[j] = 0 /\ w \div SEGMENTS[j] > 3 THEN SEGMENTS[j]
                 ELSE Go(j + 1)
    IN Go(k)

\* num_segments without the test that the candidate divides the width
num_segments_any_width(w) ==
    LET RECURSIVE Go(_)
        Go(j) == IF j > Len(SEGMENTS) THEN 1
                 ELSE IF w \div SEGMENTS[j] > 3 THEN SEGMENTS[j]
                 ELSE Go(j + 1)
    IN Go(1)

\* num_segments accepting segments exactly 3 wide
num_segments_ge3(w) ==
    LET RECURSIVE Go(_)
        Go(j) == IF j > Len(SEGMENTS) THEN 1
                 ELSE IF w % SEGMENTS[j] = 0 /\ w \div SEGMENTS[j] >= 3 THEN SEGMENTS[j]
                 ELSE Go(j + 1)
    IN Go(1)

num_segments(w) == NumSegmentsFrom(w, 1)

\* usize subtraction as the release build computes it
WrapSub(a, b) == IF a >= b THEN a - b ELSE a - b + Modulus

draw_labels(w, segments) ==
    LET seg_width == w \div segments
        RECURSIVE Seg(_)
        Seg(p) == IF p > segments THEN <<>>
                  ELSE Repeat(" ", WrapSub(seg_width, 3))
                       \o Digits((p * 100) \div segments) \o <<"%">> \o Seg(p + 1)
    IN <<"0", "%", " ">> \o Seg(1) \o <<Newline>>

\* draw_tickbar filling each segment with seg_width bar glyphs
draw_tickbar_wide_segments(w, segments) ==
    LET seg_width == w \div segments
        RECURSIVE Seg(_)
        Seg(p) == IF p > segments THEN <<>>
                  ELSE Repeat(Bar, seg_width) \o <<Tick>> \o Seg(p + 1)
    IN <<Tick>> \o Seg(1) \o <<Newline>>

draw_tickbar(w, segments) ==
    LET seg_width == w \div segments
        RECURSIVE Seg(_)
        Seg(p) == IF p > segments THEN <<>>
                  ELSE Repeat(Bar, WrapSub(seg_width, 1)) \o <<Tick>> \o Seg(p + 1)
    IN <<Tick>> \o Seg(1) \o <<Newline>>

\* draw_bar with the width compared to 0 instead of 1
draw_bar_cmp_zero(w, lab) ==
    LET segments == num_segments(w)
    IN (IF w > 3 /\ lab THEN draw_labels(w, segments) ELSE <<>>)
       \o (IF w > 0 THEN draw_tickbar(w, segments) ELSE <<Tick, Newline>>)

draw_bar(w, lab) ==
    LET segments == num_segments(w)
    IN (IF w > 3 /\ lab THEN draw_labels(w, segments) ELSE <<>>)
       \o (IF w > 1 THEN draw_tickbar(w, segments)
           ELSE IF w = 1 THEN <<Tick, Newline>>
           ELSE <<>>)

\* the calls draw_bar makes to its two helpers, with their arguments
draw_bar_calls(w, lab) ==
    LET segments == num_segments(w)
    IN (IF w > 3 /\ lab
        THEN {[fn |-> "draw_labels", width |-> w, segments |-> segments]} ELSE {})
       \cup (IF w > 1
             THEN {[fn |-> "draw_tickbar", width |-> w, segments |-> segments]} ELSE {})

\* ------------------------------------------------------------ construction
\* Style::default(); the glyph fields are the roles Tick, Bar and Indicator
DefaultStyle == [width |-> DEFAULT_WIDTH, labels |-> TRUE]

\* with_style that keeps the default style instead of the one it is given
with_style_drops_style(maxp, st) ==
    [max_progress |-> maxp,
     style |-> DefaultStyle,
     counter |-> [count |-> 0, progress |-> 0, finished |-> FALSE],
     out |-> draw_bar(st.width, st.labels)]

\* ProgressBar::with_style: a fresh counter, the scale drawn, the fields stored
with_style(maxp, st) ==
    [max_progress |-> maxp,
     style |-> st,
     counter |-> [count |-> 0, progress |-> 0, finished |-> FALSE],
     out |-> draw_bar(st.width, st.labels)]

\* ProgressBar::new
new(maxp) == with_style(maxp, DefaultStyle)

\* --------------------------------------------------------------------- inc
\* cmp::min(c.count + i, self.max_progress), the sum wrapped
NewCount(c, i, maxp) == Min((c + i) % Modulus, maxp)

\* NewProgress with a bar of max_progress 0 taken to be complete
NewProgressEmptyIsFull(new_count, w, maxp) ==
    IF maxp > 0 THEN ((new_count * w) % Modulus) \div maxp ELSE w

\* the visual width of new_count, the product wrapped
NewProgress(new_count, w, maxp) ==
    IF maxp > 0 THEN ((new_count * w) % Modulus) \div maxp ELSE 0

\* new_progress - c.progress, wrapped
Diff(new_progress, old_progress) == WrapSub(new_progress, old_progress)

\* c.count + i leaves 0 .. MaxUsize
AddOverflows(c, i) == c + i > MaxUsize

\* new_count * self.style.width leaves 0 .. MaxUsize
MulOverflows(c, i, w, maxp) == maxp > 0 /\ NewCount(c, i, maxp) * w > MaxUsize

\* new_progress - c.progress leaves 0 .. MaxUsize
SubUnderflows(c, p, i, w, maxp) == NewProgress(NewCount(c, i, maxp), w, maxp) < p

\* some step of the critical section leaves 0 .. MaxUsize
Overflows(c, p, i, w, maxp) ==
    \/ AddOverflows(c, i)
    \/ MulOverflows(c, i, w, maxp)
    \/ SubUnderflows(c, p, i, w, maxp)

\* ------------------------------------------------------------------- state
\* the bar as ProgressBar::with_style(maxp, st) returns it
Init ==
    /\ \E maxp \in MaxProgressValues, st \in [width : WidthValues, labels : BOOLEAN] :
          LET b == with_style(maxp, st)
          IN /\ max_progress = b.max_progress
             /\ width = b.style.width
             /\ labels = b.style.labels
             /\ count = b.counter.count
             /\ progress = b.counter.progress
             /\ finished = b.counter.finished
             /\ stream = b.out
             /\ ctor = "with_style"
             /\ given = [max_progress |-> maxp, style |-> st]
    /\ overflow_checks \in BOOLEAN
    /\ lock = 0
    /\ poisoned = FALSE
    /\ pc = [t \in Threads |-> "idle"]
    /\ arg = [t \in Threads |-> 0]
    /\ todo = [t \in Threads |-> 0]
    /\ in_finish = [t \in Threads |-> FALSE]
    /\ ncalls = 0
    /\ sum = 0
    /\ last_ret = "none"
    /\ callers = {}
    /\ overflowed = FALSE

\* bar.inc(i) is called
IncCall(t, i) ==
    /\ pc[t] = "idle"
    /\ ncalls < MaxCalls
    /\ pc' = [pc EXCEPT ![t] = "inc_lock"]
    /\ arg' = [arg EXCEPT ![t] = i]
    /\ in_finish' = [in_finish EXCEPT ![t] = FALSE]
    /\ ncalls' = ncalls + 1
    /\ sum' = sum + i
    /\ callers' = callers \cup {t}
    /\ UNCHANGED <<bar_vars, counter_vars, lock, poisoned, todo, stream, last_ret,
                   overflowed>>

\* bar.finish() is called: it starts with self.inc(self.max_progress)
FinishCall(t) ==
    /\ pc[t] = "idle"
    /\ ncalls < MaxCalls
    /\ pc' = [pc EXCEPT ![t] = "inc_lock"]
    /\ arg' = [arg EXCEPT ![t] = max_progress]
    /\ in_finish' = [in_finish EXCEPT ![t] = TRUE]
    /\ ncalls' = ncalls + 1
    /\ sum' = sum + max_progress
    /\ callers' = callers \cup {t}
    /\ UNCHANGED <<bar_vars, counter_vars, lock, poisoned, todo, stream, last_ret,
                   overflowed>>

\* self.counter.lock().unwrap() in inc
IncLock(t) ==
    /\ pc[t] = "inc_lock"
    /\ lock = 0
    /\ IF poisoned
       THEN /\ pc' = [pc EXCEPT ![t] = "panicked"]
            /\ UNCHANGED lock
       ELSE /\ pc' = [pc EXCEPT ![t] = "inc_body"]
            /\ lock' = t
    /\ UNCHANGED <<bar_vars, counter_vars, poisoned, arg, todo, in_finish, stream,
                   ncalls, sum, last_ret, callers, overflowed>>

\* IncBody with the guard kept until inc returns
IncBodyKeepsGuard(t) ==
    /\ pc[t] = "inc_body"
    /\ lock = t
    /\ UNCHANGED lock
    /\ overflowed' = (overflowed \/ Overflows(count, progress, arg[t], width, max_progress))
    /\ IF overflow_checks /\ Overflows(count, progress, arg[t], width, max_progress)
       THEN /\ pc' = [pc EXCEPT ![t] = "panicked"]
            /\ poisoned' = TRUE
            /\ UNCHANGED <<counter_vars, todo>>
       ELSE LET new_count == NewCount(count, arg[t], max_progress)
                new_progress == NewProgress(new_count, width, max_progress)
            IN /\ count' = new_count
               /\ progress' = new_progress
               /\ finished' = FALSE
               /\ todo' = [todo EXCEPT ![t] = Diff(new_progress, progress)]
               /\ pc' = [pc EXCEPT ![t] = "inc_emit"]
               /\ UNCHANGED poisoned
    /\ UNCHANGED <<bar_vars, arg, in_finish, stream, ncalls, sum, last_ret, callers>>

\* the block of inc that holds the guard: compute, commit, drop the guard
IncBody(t) ==
    /\ pc[t] = "inc_body"
    /\ lock = t
    /\ lock' = 0
    /\ overflowed' = (overflowed \/ Overflows(count, progress, arg[t], width, max_progress))
    /\ IF overflow_checks /\ Overflows(count, progress, arg[t], width, max_progress)
       THEN /\ pc' = [pc EXCEPT ![t] = "panicked"]
            /\ poisoned' = TRUE
            /\ UNCHANGED <<counter_vars, todo>>
       ELSE LET new_count == NewCount(count, arg[t], max_progress)
                new_progress == NewProgress(new_count, width, max_progress)
            IN /\ count' = new_count
               /\ progress' = new_progress
               /\ finished' = FALSE
               /\ todo' = [todo EXCEPT ![t] = Diff(new_progress, progress)]
               /\ pc' = [pc EXCEPT ![t] = "inc_emit"]
               /\ UNCHANGED poisoned
    /\ UNCHANGED <<bar_vars, arg, in_finish, stream, ncalls, sum, last_ret, callers>>

\* one turn of the loop that writes the indicator glyphs
IncEmit(t) ==
    /\ pc[t] = "inc_emit"
    /\ todo[t] > 0
    /\ stream' = Append(stream, Indicator)
    /\ todo' = [todo EXCEPT ![t] = todo[t] - 1]
    /\ UNCHANGED <<bar_vars, counter_vars, lock, poisoned, pc, arg, in_finish,
                   ncalls, sum, last_ret, callers, overflowed>>

\* inc returns, to the caller or into finish
IncReturn(t) ==
    /\ pc[t] = "inc_emit"
    /\ todo[t] = 0
    /\ IF in_finish[t]
       THEN /\ pc' = [pc EXCEPT ![t] = "fin_lock"]
            /\ UNCHANGED last_ret
       ELSE /\ pc' = [pc EXCEPT ![t] = "idle"]
            /\ last_ret' = "inc"
    /\ arg' = [arg EXCEPT ![t] = 0]
    /\ UNCHANGED <<bar_vars, counter_vars, lock, poisoned, todo, in_finish,
                   stream, ncalls, sum, callers, overflowed>>

\* self.counter.lock().unwrap() in finish
FinLock(t) ==
    /\ pc[t] = "fin_lock"
    /\ lock = 0
    /\ IF poisoned
       THEN /\ pc' = [pc EXCEPT ![t] = "panicked"]
            /\ UNCHANGED lock
       ELSE /\ pc' = [pc EXCEPT ![t] = "fin_body"]
            /\ lock' = t
    /\ UNCHANGED <<bar_vars, counter_vars, poisoned, arg, todo, in_finish, stream,
                   ncalls, sum, last_ret, callers, overflowed>>

\* if !c.finished { eprintln!(); c.finished = true; }, the guard still held
FinBody(t) ==
    /\ pc[t] = "fin_body"
    /\ lock = t
    /\ IF ~finished
       THEN /\ stream' = Append(stream, Newline)
            /\ finished' = TRUE
       ELSE UNCHANGED <<stream, finished>>
    /\ pc' = [pc EXCEPT ![t] = "fin_ret"]
    /\ UNCHANGED <<bar_vars, count, progress, lock, poisoned, arg, todo, in_finish,
                   ncalls, sum, last_ret, callers, overflowed>>

\* finish returns and drops its guard
FinReturn(t) ==
    /\ pc[t] = "fin_ret"
    /\ lock = t
    /\ lock' = 0
    /\ pc' = [pc EXCEPT ![t] = "idle"]
    /\ in_finish' = [in_finish EXCEPT ![t] = FALSE]
    /\ last_ret' = "finish"
    /\ UNCHANGED <<bar_vars, counter_vars, poisoned, arg, todo, stream, ncalls, sum,
                   callers, overflowed>>

\* what a thread does inside a call
Step(t) ==
    \/ IncLock(t)
    \/ IncBody(t)
    \/ IncEmit(t)
    \/ IncReturn(t)
    \/ FinLock(t)
    \/ FinBody(t)
    \/ FinReturn(t)

Next ==
    \/ \E t \in Threads, i \in Amounts : IncCall(t, i)
    \/ \E t \in Threads : FinishCall(t)
    \/ \E t \in Threads : IncLock(t)
    \/ \E t \in Threads : IncBody(t)
    \/ \E t \in Threads : IncEmit(t)
    \/ \E t \in Threads : IncReturn(t)
    \/ \E t \in Threads : FinLock(t)
    \/ \E t \in Threads : FinBody(t)
    \/ \E t \in Threads : FinReturn(t)

Spec == Init /\ [][Next]_vars

\* the scheduler runs every thread that can take a step
FairSpec == Spec /\ \A t \in Threads : WF_vars(Step(t))

\* --------------------------------------------------- the constructor alone
\* no bar yet: the constructor has not run
ScaleInit ==
    /\ ctor = "none"
    /\ given = [max_progress |-> 0, style |-> [width |-> 0, labels |-> FALSE]]
    /\ max_progress = 0
    /\ width = 0
    /\ labels = FALSE
    /\ overflow_checks \in BOOLEAN
    /\ count = 0
    /\ progress = 0
    /\ finished = FALSE
    /\ lock = 0
    /\ poisoned = FALSE
    /\ pc = [t \in Threads |-> "idle"]
    /\ arg = [t \in Threads |-> 0]
    /\ todo = [t \in Threads |-> 0]
    /\ in_finish = [t \in Threads |-> FALSE]
    /\ stream = <<>>
    /\ ncalls = 0
    /\ sum = 0
    /\ last_ret = "none"
    /\ callers = {}
    /\ overflowed = FALSE

\* the fields and the stream become those of the bar b
Construct(b) ==
    /\ ctor = "none"
    /\ max_progress' = b.max_progress
    /\ width' = b.style.width
    /\ labels' = b.style.labels
    /\ count' = b.counter.count
    /\ progress' = b.counter.progress
    /\ finished' = b.counter.finished
    /\ stream' = stream \o b.out
    /\ UNCHANGED <<overflow_checks, lock, poisoned, pc, arg, todo, in_finish, ncalls,
                   sum, last_ret, callers, overflowed>>

\* ProgressBar::new(maxp) is called
New(maxp) ==
    /\ Construct(new(maxp))
    /\ ctor' = "new"
    /\ given' = [max_progress |-> maxp, style |-> DefaultStyle]

\* ProgressBar::with_style(maxp, st) is called
WithStyle(maxp, st) ==
    /\ Construct(with_style(maxp, st))
    /\ ctor' = "with_style"
    /\ given' = [max_progress |-> maxp, style |-> st]

ScaleNext ==
    \/ \E maxp \in MaxProgressValues : New(maxp)
    \/ \E maxp \in MaxProgressValues, st \in [width : 0 .. MaxWidth, labels : BOOLEAN] :
          WithStyle(maxp, st)

\* the constructor and nothing after it, for styles up to MaxWidth wide
ScaleSpec == ScaleInit /\ [][ScaleNext]_vars

\* ----------------------------------------------------------- observations
\* ProgressBar::style
style == [width |-> width, labels |-> labels]

\* the glyphs that incs have committed to and not written yet
RECURSIVE OwedUpTo(_)
OwedUpTo(t) == IF t = 0 THEN 0 ELSE todo[t] + OwedUpTo(t - 1)
GlyphsOwed == OwedUpTo(NumThreads)

\* thread t writes an indicator glyph in this step
WritesGlyph(t) == pc[t] = "inc_emit" /\ todo'[t] # todo[t] /\ stream' # stream

\* thread t writes finish's newline in this step
WritesNewline(t) == pc[t] = "fin_body" /\ stream' # stream

\* the last line written so far, without its newline: after the constructor,
\* the tick row
TickRow ==
    LET n == Len(stream)
        ends == {k \in 1 .. n - 1 : stream[k] = Newline}
        from == IF ends = {} THEN 1
                ELSE (CHOOSE k \in ends : \A j \in ends : j <= k) + 1
    IN SubSeq(stream, from, n - 1)

Count(seq, c) == Cardinality({k \in DOMAIN seq : seq[k] = c})

\* the scale, written by the constructor
Scale == draw_bar(width, labels)

\* what inc and finish have written after it
Written == SubSeq(stream, Len(Scale) + 1, Len(stream))

GlyphsWritten == Count(Written, Indicator)
NewlinesWritten == Count(Written, Newline)

\* every call made so far has returned
AllReturned == \A t \in Threads : pc[t] = "idle"

Faulted == \E t \in Threads : pc[t] = "panicked"

\* ------------------------------------------------------------------ claims

\* C1 (as stated): once every call has returned, the glyphs written are
\* floor(min(S, max_progress) * width / max_progress), S the sum of the amounts
\* of the inc calls, however S was split.
PathIndependence ==
    (AllReturned /\ max_progress > 0)
        => GlyphsWritten = (Min(sum, max_progress) * width) \div max_progress

\* C2 (as stated): when inc calls of two or more threads, whose amounts sum to
\* max_progress > 0, have all returned, exactly width glyphs have been written.
ConcurrentIncsFillBar ==
    (AllReturned /\ max_progress > 0 /\ Cardinality(callers) >= 2 /\ sum = max_progress)
        => GlyphsWritten = width

\* C3 (as stated): however often finish has been called, once the calls have
\* returned exactly one trailing newline has been written.
FinishNewlineOnce ==
    (AllReturned /\ last_ret = "finish") => NewlinesWritten = 1

\* C4 (as stated): when finish has returned on a bar with max_progress > 0,
\* count = max_progress, progress = width and width glyphs have been written.
FinishCompletes ==
    (AllReturned /\ last_ret = "finish" /\ max_progress > 0)
        => (count = max_progress /\ progress = width /\ GlyphsWritten = width)

\* C5: a bar with max_progress = 0 never writes an indicator glyph, never owes
\* one, never faults, and its progress stays 0.
ZeroMaxSilent ==
    max_progress = 0
        => /\ GlyphsWritten = 0
           /\ \A t \in Threads : todo[t] = 0
           /\ progress = 0
           /\ ~Faulted
           /\ ~overflowed

\* C5 witness: on such a bar an inc of a positive amount and a finish returned
ZeroMaxWitness ==
    max_progress = 0 /\ width > 0 /\ sum > 0 /\ AllReturned /\ last_ret = "finish"

\* C6 (as stated): the block of inc that holds the guard never overflows in
\* count + i or in new_count * width, never faults, and leaves
\* count = min(old count + i, max_progress).
IncSaturates ==
    [][\A t \in Threads :
          (pc[t] = "inc_body" /\ pc'[t] # "inc_body")
              => /\ ~AddOverflows(count, arg[t])
                 /\ ~MulOverflows(count, arg[t], width, max_progress)
                 /\ pc'[t] # "panicked"
                 /\ count' = Min(count + arg[t], max_progress)]_vars

\* C7 (as stated, already for runs whose arithmetic stayed in range): no
\* indicator glyph follows finish's newline in the stream.
NoGlyphAfterNewline ==
    ~overflowed
        => \A j, k \in DOMAIN Written :
              (j < k /\ Written[j] = Newline) => Written[k] # Indicator

\* C8 (as stated, the liveness half): under fair scheduling every inc and
\* finish call eventually returns.
EveryCallReturns ==
    \A t \in Threads : (pc[t] # "idle") ~> (pc[t] = "idle")

\* C8, the lock discipline on its own: no thread waits for the counter lock
\* while it holds it.
NoNestedAcquire ==
    \A t \in Threads : pc[t] \in {"inc_lock", "fin_lock"} => lock # t

\* C8, the lock discipline on its own: under fair scheduling every call ends,
\* by returning or by panicking; none waits for ever.
EveryCallEnds ==
    \A t \in Threads : (pc[t] # "idle") ~> (pc[t] \in {"idle", "panicked"})

\* C9: a bar of width 0 has no scale, and nothing but finish's newlines is
\* ever written: no indicator glyph is written or owed.
ZeroWidthSilent ==
    width = 0
        => /\ Scale = <<>>
           /\ ncalls = 0 => stream = <<>>
           /\ \A k \in DOMAIN stream : stream[k] = Newline
           /\ \A t \in Threads : todo[t] = 0

\* C9 witness: a bar of width 0 driven to its maximum by incs and a finish
ZeroWidthWitness ==
    /\ width = 0
    /\ max_progress > 0
    /\ count = max_progress
    /\ sum > max_progress
    /\ AllReturned
    /\ last_ret = "finish"

\* C10 (as stated): a bar of width 1 has the scale line "tick, newline" and
\* writes at most one indicator glyph.
WidthOneAtMostOneGlyph ==
    width = 1 => (Scale = <<Tick, Newline>> /\ GlyphsWritten <= 1)

\* C11: style() is the style the constructor was given (the default style for
\* new), and max_progress the maximum it was given, whatever inc and finish
\* calls have run since.
StyleKept ==
    ctor # "none"
        => /\ style = given.style
           /\ max_progress = given.max_progress
           /\ ctor = "new" => style = DefaultStyle

\* C11 witness: incs and a finish have run and moved the counter and the stream
StyleKeptWitness ==
    /\ ctor = "with_style"
    /\ AllReturned
    /\ last_ret = "finish"
    /\ sum > max_progress
    /\ count > 0
    /\ GlyphsWritten > 0
    /\ NewlinesWritten > 0

\* C11, the constructor new: the bar it builds has the default style
NewHasDefaultStyle ==
    ctor = "new" => (style = DefaultStyle /\ style.width = DEFAULT_WIDTH /\ style.labels)

\* C12: num_segments(width) is the first s of 10, 5, 4, 2 that divides width
\* with width / s > 3, and 1 when there is none (so for every width below 8);
\* it always divides width.
NumSegmentsFirstFit ==
    ctor # "none"
        => LET cand == <<10, 5, 4, 2>>
               fits == {j \in 1 .. 4 : width % cand[j] = 0 /\ width \div cand[j] > 3}
               first == CHOOSE j \in fits : \A k \in fits : j <= k
           IN /\ num_segments(width) = IF fits = {} THEN 1 ELSE cand[first]
              /\ width < 8 => num_segments(width) = 1
              /\ width % num_segments(width) = 0

\* C12 witness: width 20, which 10 divides into segments too narrow, so 5 is taken
NumSegmentsWitness ==
    ctor = "with_style" /\ width = 20 /\ num_segments(width) = 5
        /\ Count(TickRow, Tick) = 6

\* C18: for width > 1 the tick row is width + 1 glyphs and a newline, a tick at
\* every column that is a multiple of width / segments (columns 0 .. width) and
\* a bar glyph at every other column: segments + 1 ticks in all.
TickRowShape ==
    (ctor # "none" /\ width > 1)
        => LET segments == num_segments(width)
               seg_width == width \div segments
           IN /\ stream[Len(stream)] = Newline
              /\ Len(TickRow) = width + 1
              /\ \A c \in 0 .. width :
                    TickRow[c + 1] = IF c % seg_width = 0 THEN Tick ELSE Bar
              /\ Count(TickRow, Tick) = segments + 1
              /\ Count(TickRow, Bar) = segments * (seg_width - 1)

\* C18 witness: a bar 16 wide, four segments of three bar glyphs
TickRowWitness ==
    /\ ctor = "with_style"
    /\ width = 16
    /\ Count(TickRow, Tick) = 5
    /\ SubSeq(TickRow, 1, 5) = <<Tick, Bar, Bar, Bar, Tick>>

\* C19: every call draw_bar makes to draw_labels or draw_tickbar has
\* width % segments = 0 and segments >= 1, and seg_width - 3 (in draw_labels)
\* and seg_width - 1 (in draw_tickbar) do not underflow.
HelperPreconditions ==
    ctor # "none"
        => \A c \in draw_bar_calls(width, labels) :
              /\ c.segments >= 1
              /\ c.width % c.segments = 0
              /\ c.fn = "draw_labels" => c.width \div c.segments >= 3
              /\ c.fn = "draw_tickbar" => c.width \div c.segments >= 1

\* C19 witness: the narrowest bar with labels, both helpers called
HelperPreconditionsWitness ==
    /\ ctor = "with_style"
    /\ width = 4
    /\ Cardinality(draw_bar_calls(width, labels)) = 2
    /\ Count(stream, Newline) = 2
    /\ Count(stream, " ") = 2

\* C13 (as stated): whenever the lock is free, progress is
\* floor(count * width / max_progress) if max_progress > 0, and 0 otherwise.
ProgressIsScaledCount ==
    (ctor # "none" /\ lock = 0)
        => progress = IF max_progress > 0 THEN (count * width) \div max_progress ELSE 0

\* C14 (as stated): count <= max_progress and progress <= width in every
\* state, and no step lowers count or progress.
CounterBoundedMonotone ==
    [][/\ count <= max_progress /\ count' <= max_progress
       /\ progress <= width /\ progress' <= width
       /\ count' >= count
       /\ progress' >= progress]_vars

\* C15 (as stated): once finished is true no step sets it back to false.
FinishedStaysTrue ==
    [][finished => finished']_vars

\* C16 (as stated): no thread writes to the stream, a glyph or the newline,
\* while it holds the counter lock.
NoWriteUnderLock ==
    [][\A t \in Threads : (WritesGlyph(t) \/ WritesNewline(t)) => lock # t]_vars

\* C16 (amended): inc writes its indicator glyphs after it has released the
\* counter lock; finish writes its trailing newline while it holds the lock.
GlyphsOutsideNewlineUnderLock ==
    [][\A t \in Threads : /\ WritesGlyph(t) => lock # t
                          /\ WritesNewline(t) => lock = t]_vars

\* C16 witness: an inc has written a glyph and a finish its newline
WritesWitness ==
    GlyphsWritten > 0 /\ NewlinesWritten > 0 /\ AllReturned /\ ~overflowed

\* C17 (as stated): in every inc, new_progress - c.progress computed under the
\* lock is >= 0.
DiffNonNegative ==
    \A t \in Threads :
        (pc[t] = "inc_body" /\ lock = t)
            => ~SubUnderflows(count, progress, arg[t], width, max_progress)

\* C20 (as stated): the glyphs written plus the glyphs owed by incs that have
\* committed equal the counter's progress.
GlyphAccounting ==
    GlyphsWritten + GlyphsOwed = progress

====
